---------------------------- MODULE Spec2Model ----------------------------
(***************************************************************************)
(* Model of the-wish-machine: run_wish_simulation (src/app.py).            *)
(*                                                                         *)
(* Numbers are fixed-point integers:                                       *)
(*   - sampled outcomes are in units of 1/Scale of a percentage point,     *)
(*     so 50% is 50*Scale and 100% is 100*Scale;                           *)
(*   - quantum_noise is in hundredths (80..120);                           *)
(*   - entropy_factor and temporal_factor are in thousandths;              *)
(*   - consciousness_level is intensity*noise*temporal, i.e. the code's    *)
(*     value in units of 2*10^8, and consciousness_weight is a numerator   *)
(*     over WeightDen = 10^7 (0.95 is 9500000).                            *)
(***************************************************************************)
EXTENDS Integers, Sequences, FiniteSets, TLC

\* ------------------------------------------------------------------ bounds
\* Resolution of a sampled outcome: units per percentage point.
Scale == 2
\* Longest period of a modelled pseudo-random stream.
MaxPeriod == 3

\* ------------------------------------------------------- program constants
num_trials == 1000
NumBuckets == 100

Min(a, b) == IF a < b THEN a ELSE b
Max(a, b) == IF a > b THEN a ELSE b
Abs(a) == IF a < 0 THEN 0 - a ELSE a

\* ------------------------------------------------------------------- state
VARIABLES
    pc,                  \* position in run_wish_simulation
    rng,                 \* state of the global numpy generator
    seed,                \* the state the generator had when the call began
    clock,               \* time.time() * 1000 at the call
    draws,               \* calls to np.random made by this invocation
    others,              \* calls to np.random made meanwhile by others
    wish_text, intensity,
    entropy_factor, quantum_noise, temporal_factor,
    preference_strength, consciousness_level, consciousness_weight,
    results, trial_outcomes, trial,
    trial_histogram, bucket_index, visited, baseline_histogram,
    coherence_label, detected_peaks, dominant_peak, peak_shift,
    separation_score, variance,
    first,               \* result of the previous invocation, if any
    users,               \* the users table, by email
    wishes,              \* the wishes table, in insertion order
    session,             \* the browser's Flask session (signed cookie)
    checkout,            \* the Stripe checkout that was paid last, if any
    current_user,        \* the User object a method is being called on
    subscribers,         \* the email_subscribers table, in insertion order
    month,               \* the calendar month of datetime.now()
    request, response,   \* the last request handled and its response
    sim_calls,           \* arguments run_wish_simulation was called with
    requests             \* number of requests handled

env == <<rng, seed, clock, draws, others, wish_text, intensity>>
params == <<entropy_factor, quantum_noise, temporal_factor,
            preference_strength, consciousness_level, consciousness_weight>>
tally == <<results, trial_outcomes, trial>>
hist == <<trial_histogram, bucket_index, visited>>
report == <<baseline_histogram, coherence_label, detected_peaks,
            dominant_peak, peak_shift, separation_score, variance>>
web == <<users, wishes, session, checkout, current_user, subscribers,
         month, request, response, sim_calls, requests>>
vars == <<pc, env, params, tally, hist, report, first, web>>

\* ------------------------------------------------------------- environment
\* Raw output of the global numpy generator: r stands for r / RawMax.
RawMax == 100 * Scale
\* The raw values the modelled generator can emit: both ends of the range,
\* the middle, one unit below the top, and two interior points.
RawValues ==
    {0, 10 * Scale, 50 * Scale, 85 * Scale, 100 * Scale - 1, 100 * Scale}

\* A stream of the generator is periodic: a cycle of raw values.
Seeds == UNION {[1..n -> RawValues] : n \in 1..MaxPeriod}

\* Wish texts, with the first 8 hex digits of their MD5 digest split into
\* two 16-bit halves (the 32-bit value does not fit a TLC integer).
Texts == {"test wish", "a", "I wish for peace"}
Md5Prefix(text) ==
    CASE text = "test wish"        -> [hi |-> 41518, lo |-> 24146]
      [] text = "a"                -> [hi |-> 3265,  lo |-> 30137]
      [] text = "I wish for peace" -> [hi |-> 4978,  lo |-> 22508]

\* np.random.<draw>(): the value the generator emits next, and its new state.
RngPeek(g) == g.cycle[g.pos + 1]
RngStep(g) == [g EXCEPT !.pos = (g.pos + 1) % Len(g.cycle)]
RngSkip(g, n) == [g EXCEPT !.pos = (g.pos + n) % Len(g.cycle)]

\* np.random.uniform(0.8, 1.2), in hundredths.
Uniform(raw) == 80 + (40 * raw) \div RawMax
\* np.random.random(), in hundredths of [0, 1).
Random(raw) == (raw * 100) \div (RawMax + 1)
\* np.random.beta(alpha, beta) * 100, in outcome units.  Every shape has the
\* whole of [0, 1] as its support, so any raw value is a possible sample.
BetaTimes100(alpha, beta, raw) == (raw * 100 * Scale) \div RawMax

\* --------------------------------------------------- parameter derivation
\* wish_hash % 300 computed from the two halves: 65536 % 300 = 136.
WishHashMod300(text) ==
    LET h == Md5Prefix(text)
    IN  (((h.hi % 300) * (65536 % 300)) + h.lo) % 300

EntropyFactor(text) == 850 + WishHashMod300(text)

TemporalFactor(time_ms) == 1000 + (time_ms % 100)

\* floor(sqrt(n))
ISqrt(n) == CHOOSE r \in 0..3200 : r * r <= n /\ (r + 1) * (r + 1) > n

\* Variant: the temporal variance is applied to the preference as well.
BasePreferenceTimed(i, entropy) ==
    ((ISqrt(i * 100000) * entropy) \div 1000) * (1000 + (clock % 100))

\* sqrt(intensity / 10) * entropy_factor, in millionths.
BasePreference(i, entropy) == ISqrt(i * 100000) * entropy

\* Variant: the intensity is divided by 100 instead of 50.
ConsciousnessLevelHalf(i, noise, temporal) == (i * noise * temporal) \div 2

\* Variant: the intensity is not divided by 50.
ConsciousnessLevelNoScale(i, noise, temporal) == i * 50 * noise * temporal

\* 10**15 * (intensity / 50) * quantum_noise * temporal_factor
ConsciousnessLevel(i, noise, temporal) == i * noise * temporal

WeightDen == 10000000
WeightCap == 9500000

\* Variant: the weight is not capped at 0.95.
ConsciousnessWeightUnclamped(level) == level

\* Variant: the level is divided by 10**15 instead of 10**15 * 2.
ConsciousnessWeightDouble(level) == Min(WeightCap, 2 * level)

\* min(0.95, consciousness_level / (10**15 * 2))
ConsciousnessWeight(level) == Min(WeightCap, level)

\* Option values: None for a missing key or a NULL column, Some(x) else.
None == <<>>
Some(x) == <<x>>
Get(opt, default) == IF opt = None THEN default ELSE opt[1]

\* A wish text of len characters: "a" * len.
WishText(n) == [char |-> "a", len |-> n]

Emails == {"ann@example.com", "bob@example.com"}

\* models.py 19-33: a row of the users table; registered is FALSE while
\* the table has no row for the email.
NoUser ==
    [registered |-> FALSE, subscription_tier |-> "free",
     stripe_customer_id |-> None, stripe_subscription_id |-> None,
     subscription_status |-> "active",
     wishes_this_month |-> 0, total_wishes |-> 0, bonus_wishes |-> 0,
     last_wish_reset |-> 0]
NewUser(bonus, now) ==
    [NoUser EXCEPT !.registered = TRUE, !.bonus_wishes = bonus,
                   !.last_wish_reset = now]

EmptySession ==
    [user_id |-> None, anonymous_wish_count |-> None,
     guest_purchase_ref |-> None, pending_subscription |-> None]

NoRequest == [route |-> "", wish |-> WishText(0), intensity |-> None]
NoResponse ==
    [status |-> 0, limit_reached |-> FALSE, already_subscribed |-> FALSE, anonymous |-> FALSE,
     wishes_used |-> None]

\* The site before any request: one account exists, nobody is logged in.
Web0 ==
    /\ users = [e \in Emails |->
                   IF e = "ann@example.com" THEN NewUser(0, 0) ELSE NoUser]
    /\ wishes = <<>>
    /\ session = EmptySession
    /\ checkout = None
    /\ current_user = None
    /\ subscribers = <<>>
    /\ month = 0
    /\ request = NoRequest
    /\ response = NoResponse
    /\ sim_calls = {}
    /\ requests = 0

NoResult == [none |-> TRUE]

Locals0 ==
    /\ entropy_factor = 0 /\ quantum_noise = 0 /\ temporal_factor = 0
    /\ preference_strength = 0 /\ consciousness_level = 0
    /\ consciousness_weight = 0
    /\ results = [manifested |-> 0, not_manifested |-> 0]
    /\ trial_outcomes = <<>> /\ trial = 0
    /\ trial_histogram = <<>> /\ bucket_index = 0 /\ visited = 0
    /\ baseline_histogram = <<>>
    /\ coherence_label = "" /\ detected_peaks = <<>>
    /\ dominant_peak = 0 /\ peak_shift = 0 /\ separation_score = 0
    /\ variance = [trial_variance |-> 0, baseline_variance |-> 0,
                   variance_ratio |-> [num |-> 0, den |-> 1]]

InitOf(T, I, C, S) ==
    /\ pc = "start"
    /\ wish_text \in T
    /\ intensity \in I
    /\ clock \in C
    /\ \E s \in S : rng = [cycle |-> s, pos |-> 0]
    /\ seed = rng
    /\ draws = 0
    /\ others = 0
    /\ first = NoResult
    /\ Locals0
    /\ Web0

\* ------------------------------------------------------------------ actions
\* app.py 160-203: parameter derivation, up to the start of the trial loop.
DeriveParameters ==
    /\ pc = "start"
    /\ entropy_factor' = EntropyFactor(wish_text)
    /\ quantum_noise' = Uniform(RngPeek(rng))
    /\ rng' = RngStep(rng)
    /\ draws' = draws + 1
    /\ temporal_factor' = TemporalFactor(clock)
    /\ preference_strength' = BasePreference(intensity, entropy_factor')
    /\ consciousness_level' =
           ConsciousnessLevel(intensity, quantum_noise', temporal_factor')
    /\ consciousness_weight' = ConsciousnessWeight(consciousness_level')
    /\ results' = [manifested |-> 0, not_manifested |-> 0]
    /\ trial_outcomes' = <<>>
    /\ trial' = 0
    /\ pc' = "trials"
    /\ UNCHANGED <<seed, clock, others, wish_text, intensity, hist, report, first, web>>

\* max(0, min(100, outcome))
Clip(outcome) == Max(0, Min(100 * Scale, outcome))

\* Variant: an outcome of exactly 50 counts as manifested.
ManifestedAtLeast(outcome) == outcome >= 50 * Scale

\* outcome > 50
Manifested(outcome) == outcome > 50 * Scale

\* Variant: an outcome of exactly 50 is counted on neither side.
CountStrict(r, outcome) ==
    IF outcome > 50 * Scale THEN [r EXCEPT !.manifested = @ + 1]
    ELSE IF outcome < 50 * Scale THEN [r EXCEPT !.not_manifested = @ + 1]
    ELSE r

\* app.py 229-232: results["manifested"] += 1 or results["not_manifested"] += 1
Count(r, outcome) ==
    IF Manifested(outcome)
    THEN [r EXCEPT !.manifested = @ + 1]
    ELSE [r EXCEPT !.not_manifested = @ + 1]

\* app.py 205-232: one iteration of the trial loop.
Trial ==
    /\ pc = "trials"
    /\ trial < num_trials
    /\ LET r1 == RngPeek(rng)
           g1 == RngStep(rng)
           r2 == RngPeek(g1)
           collapse_to_consciousness ==
               Random(r1) * (WeightDen \div 100) < consciousness_weight
           alpha == IF collapse_to_consciousness
                    THEN 18 * WeightDen + consciousness_weight * 5
                    ELSE 5 * WeightDen
           beta == IF collapse_to_consciousness THEN 2 ELSE 5
           outcome == Clip(BetaTimes100(alpha, beta, r2))
       IN  /\ rng' = RngStep(g1)
           /\ draws' = draws + 2
           /\ trial_outcomes' = Append(trial_outcomes, outcome)
           /\ results' = Count(results, outcome)
    /\ trial' = trial + 1
    /\ pc' = IF trial' = num_trials THEN "histogram" ELSE pc
    /\ UNCHANGED <<seed, clock, others, wish_text, intensity, params, hist, report,
                   first, web>>

\* app.py 234-243: the counts and percentages, and the empty histogram.
\* Percentages are in tenths of a percentage point.
Percent(count) == (count * 1000) \div num_trials

\* Variant: the histogram is a module-level list that is created once and
\* reused by every invocation.
StaleHistogram ==
    IF trial_histogram = <<>> THEN [i \in 0..(NumBuckets - 1) |-> 0]
    ELSE trial_histogram

EmptyHistogram == [i \in 0..(NumBuckets - 1) |-> 0]

Tally ==
    /\ pc = "histogram"
    /\ trial_histogram' = EmptyHistogram
    /\ bucket_index' = 0
    /\ visited' = 0
    /\ pc' = "buckets"
    /\ UNCHANGED <<env, params, tally, report, first, web>>

\* Variant: the value is truncated without being capped at 99.
BucketIndexNoClip(outcome_value) == Max(0, outcome_value) \div Scale

\* int(min(99, max(0, outcome_value)))
BucketIndex(outcome_value) ==
    Min(99 * Scale, Max(0, outcome_value)) \div Scale

\* Variant: the bucket is set to 1 instead of being incremented.
IncrementSet(h, b) ==
    LET j == IF b < 0 THEN b + NumBuckets ELSE b
    IN  IF j \in DOMAIN h THEN [h EXCEPT ![j] = 1] ELSE h

\* trial_histogram[bucket_index] += 1.  A negative index counts from the end
\* of the list; an index outside the list raises IndexError, which leaves
\* the list as it was.
Increment(h, b) ==
    LET j == IF b < 0 THEN b + NumBuckets ELSE b
    IN  IF j \in DOMAIN h THEN [h EXCEPT ![j] = @ + 1] ELSE h

\* app.py 245-247: one iteration of the bucketing loop; visited is the
\* number of elements of trial_outcomes the loop has consumed.
Bucket ==
    /\ pc = "buckets"
    /\ visited < Len(trial_outcomes)
    /\ bucket_index' = BucketIndex(trial_outcomes[visited + 1])
    /\ trial_histogram' = Increment(trial_histogram, bucket_index')
    /\ visited' = visited + 1
    /\ pc' = IF visited' = Len(trial_outcomes) THEN "baseline" ELSE pc
    /\ UNCHANGED <<env, params, tally, report, first, web>>

\* np.exp(-k / 5) in units of 1/ExpScale, by repeated multiplication with
\* exp(-1/5) = 0.8187...; the product is 0 from k = 58 on.
ExpScale == 100000
ExpFifth == 8187
ExpNegFifths(k) ==
    LET RECURSIVE Pow(_, _)
        Pow(acc, n) ==
            IF n = 0 \/ acc = 0 THEN acc
            ELSE Pow((acc * ExpFifth) \div 10000, n - 1)
    IN  Pow(ExpScale, k)

\* app.py 255-257.  variance = num_trials * 0.25 and std_dev =
\* sqrt(variance) / num_trials * 100, so 2 * std_dev ** 2 is
\* 5000 / num_trials = 5 and the exponent is -(i - 50)**2 / 5.
BaselineValue(i) ==
    LET d2 == ((i - 50) * (i - 50) * num_trials) \div 1000
    IN  (1000 * ExpNegFifths(d2)) \div ExpScale

BaselineHistogram == [i \in 0..(NumBuckets - 1) |-> BaselineValue(i)]

\* Variant: the thresholds are inclusive.
CoherenceLabelAtLeast(w) ==
    IF w * 10 >= 7 * WeightDen THEN "High"
    ELSE IF w * 10 >= 4 * WeightDen THEN "Medium"
    ELSE "Low"

\* app.py 263
CoherenceLabel(w) ==
    IF w * 10 > 7 * WeightDen THEN "High"
    ELSE IF w * 10 > 4 * WeightDen THEN "Medium"
    ELSE "Low"

\* app.py 251-263: the baseline histogram and the coherence label.
Baseline ==
    /\ pc = "baseline"
    /\ baseline_histogram' = BaselineHistogram
    /\ coherence_label' = CoherenceLabel(consciousness_weight)
    /\ pc' = "peaks"
    /\ UNCHANGED <<env, params, tally, hist, detected_peaks, dominant_peak,
                   peak_shift, separation_score, variance, first, web>>

\* Variant: bucket 75 counts as a consciousness peak.
PeakTypeFrom75(i) ==
    IF i >= 75 THEN "consciousness"
    ELSE IF 40 <= i /\ i <= 60 THEN "baseline"
    ELSE "transition"

\* app.py 275
PeakType(i) ==
    IF i > 75 THEN "consciousness"
    ELSE IF 40 <= i /\ i <= 60 THEN "baseline"
    ELSE "transition"

\* app.py 269-271
IsPeak(h, i) == h[i] > h[i - 1] /\ h[i] > h[i + 1] /\ h[i] > 10

\* app.py 267-276: the peaks in the order of the scan, range(1, 99).
DetectPeaks(h) ==
    LET RECURSIVE Scan(_)
        Scan(i) ==
            IF i >= 99 THEN <<>>
            ELSE (IF IsPeak(h, i)
                  THEN <<[position |-> i, height |-> h[i],
                          type |-> PeakType(i)]>>
                  ELSE <<>>) \o Scan(i + 1)
    IN  Scan(1)

\* Variant: the sort is ascending (reverse=True omitted).
SortAscending(peaks) ==
    LET Insert(s, p) ==
            LET k == Cardinality({j \in 1..Len(s) : s[j].height <= p.height})
            IN  SubSeq(s, 1, k) \o <<p>> \o SubSeq(s, k + 1, Len(s))
        RECURSIVE Sorted(_)
        Sorted(n) == IF n = 0 THEN <<>> ELSE Insert(Sorted(n - 1), peaks[n])
    IN  Sorted(Len(peaks))

\* Variant: the list is not sorted at all.
SortNone(peaks) == peaks

\* list.sort(key=height, reverse=True): stable, so peaks of equal height
\* keep the order of the scan.
SortByHeight(peaks) ==
    LET Insert(s, p) ==
            LET k == Cardinality({j \in 1..Len(s) : s[j].height >= p.height})
            IN  SubSeq(s, 1, k) \o <<p>> \o SubSeq(s, k + 1, Len(s))
        RECURSIVE Sorted(_)
        Sorted(n) == IF n = 0 THEN <<>> ELSE Insert(Sorted(n - 1), peaks[n])
    IN  Sorted(Len(peaks))

\* Variant: the default of the dominant peak is 0.
DominantPeakZero(peaks) == IF peaks # <<>> THEN peaks[1].position ELSE 0

\* app.py 280
DominantPeak(peaks) == IF peaks # <<>> THEN peaks[1].position ELSE 50

\* app.py 267-284: peak detection, the dominant peak and its shift.
Peaks ==
    /\ pc = "peaks"
    /\ detected_peaks' = SortByHeight(DetectPeaks(trial_histogram))
    /\ dominant_peak' = DominantPeak(detected_peaks')
    /\ peak_shift' = dominant_peak' - 50
    /\ pc' = "variance"
    /\ UNCHANGED <<env, params, tally, hist, baseline_histogram,
                   coherence_label, separation_score, variance, first, web>>

SumSeq(xs) ==
    LET RECURSIVE Range(_, _)
        Range(lo, hi) ==
            IF lo > hi THEN 0
            ELSE IF lo = hi THEN xs[lo]
            ELSE LET mid == (lo + hi) \div 2
                 IN  Range(lo, mid) + Range(mid + 1, hi)
    IN  Range(1, Len(xs))

\* np.var(xs) in squared outcome units, times Len(xs), rounded up to an
\* integer: sum(x^2) - floor(sum(x)^2 / n).  It is 0 exactly when the
\* variance is 0.
VarTimesN(xs) ==
    LET n == Len(xs)
        S == SumSeq(xs)
        Q == SumSeq([k \in 1..n |-> xs[k] * xs[k]])
        a == S \div n
        b == S % n
    IN  Q - (n * a * a + 2 * a * b + (b * b) \div n)

\* [np.random.beta(5, 5) * 100 for _ in range(1000)]
BaselineSample(g) ==
    [k \in 1..1000 |-> BetaTimes100(5, 5, RngPeek(RngSkip(g, k - 1)))]

\* Variant: the division is not guarded.
VarianceRatioUnguarded(tv, bv) == [num |-> tv, den |-> bv]

\* trial_variance / baseline_variance if baseline_variance > 0 else 1.0,
\* as a fraction.
VarianceRatio(tv, bv) ==
    IF bv > 0 THEN [num |-> tv, den |-> bv] ELSE [num |-> 1, den |-> 1]

\* Variant: the reference sample comes from a private generator, so the
\* global one is left alone.
VariancePrivateSample ==
    /\ pc = "variance"
    /\ LET tv == VarTimesN(trial_outcomes)
           bv == VarTimesN(BaselineSample(rng))
       IN  variance' = [trial_variance |-> tv, baseline_variance |-> bv,
                        variance_ratio |-> VarianceRatio(tv, bv)]
    /\ pc' = "separation"
    /\ UNCHANGED <<env, params, tally, hist,
                   baseline_histogram, coherence_label, detected_peaks,
                   dominant_peak, peak_shift, separation_score, first, web>>

\* app.py 287-289: the variance comparison.
Variance ==
    /\ pc = "variance"
    /\ LET tv == VarTimesN(trial_outcomes)
           bv == VarTimesN(BaselineSample(rng))
       IN  variance' = [trial_variance |-> tv, baseline_variance |-> bv,
                        variance_ratio |-> VarianceRatio(tv, bv)]
    /\ rng' = RngSkip(rng, 1000)
    /\ draws' = draws + 1000
    /\ pc' = "separation"
    /\ UNCHANGED <<seed, clock, others, wish_text, intensity, params, tally, hist,
                   baseline_histogram, coherence_label, detected_peaks,
                   dominant_peak, peak_shift, separation_score, first, web>>

\* app.py 293-297, in fiftieths: min(1.0, peak_separation / 50.0).
SeparationScore(peaks) ==
    IF Len(peaks) >= 2
    THEN Min(50, Abs(peaks[1].position - peaks[2].position))
    ELSE 0

\* app.py 293-323: the separation score and the return.
Separation ==
    /\ pc = "separation"
    /\ separation_score' = SeparationScore(detected_peaks)
    /\ pc' = "done"
    /\ UNCHANGED <<env, params, tally, hist, baseline_histogram,
                   coherence_label, detected_peaks, dominant_peak,
                   peak_shift, variance, first, web>>

\* app.py 299-323: the returned dict.
Result ==
    [wish |-> wish_text,
     intensity |-> intensity,
     num_trials |-> num_trials,
     manifested_count |-> results.manifested,
     not_manifested_count |-> results.not_manifested,
     manifested_percent |-> Percent(results.manifested),
     not_manifested_percent |-> Percent(results.not_manifested),
     difference_from_baseline |-> Percent(results.manifested) - 500,
     consciousness_level |-> consciousness_level,
     preference_strength |-> preference_strength,
     trial_histogram |-> trial_histogram,
     baseline_histogram |-> baseline_histogram,
     quantum_coherence |-> consciousness_weight,
     coherence_label |-> coherence_label,
     detected_peaks |-> detected_peaks,
     dominant_peak |-> dominant_peak,
     peak_shift |-> peak_shift,
     trial_variance |-> variance.trial_variance,
     baseline_variance |-> variance.baseline_variance,
     variance_ratio |-> variance.variance_ratio,
     separation_score |-> separation_score]

\* A further invocation after the previous one returned: the caller keeps
\* the returned dict, the generator is seeded (np.random.seed) and the clock
\* has some value.  The locals of the previous invocation are dead; the new
\* invocation assigns each before it reads it.
CallAgain(T, I, C, S) ==
    /\ pc = "done"
    /\ first = NoResult
    /\ first' = [result |-> Result, seed |-> seed, clock |-> clock]
    /\ wish_text' \in T
    /\ intensity' \in I
    /\ clock' \in C
    /\ \E s \in S : rng' = [cycle |-> s, pos |-> 0]
    /\ seed' = rng'
    /\ draws' = 0
    /\ others' = 0
    /\ pc' = "start"
    /\ UNCHANGED <<params, tally, hist, report, web>>

Run ==
    \/ DeriveParameters \/ Trial \/ Tally \/ Bucket
    \/ Baseline \/ Peaks \/ Variance \/ Separation

\* One invocation, for every modelled stream of the generator.
Init == InitOf({"test wish"}, {50}, {0}, Seeds)
Next == Run
Spec == Init /\ [][Next]_vars

\* Parameter derivation alone, for every intensity.
WeightClocks == {0, 1, 50, 99, 1234}
InitWeight ==
    InitOf(Texts, 1..100, WeightClocks, {<<r>> : r \in RawValues})
NextWeight == DeriveParameters
SpecWeight == InitWeight /\ [][NextWeight]_vars

\* Two invocations in a row, the second with any of the same inputs.
PairTexts == {"test wish", "a"}
PairIntensities == {1, 100}
PairClocks == {0, 7}
PairSeeds ==
    {<<10 * Scale, 50 * Scale, 85 * Scale>>, <<100 * Scale, 50 * Scale>>}
InitPair == InitOf(PairTexts, PairIntensities, PairClocks, PairSeeds)
NextPair ==
    \/ Run
    \/ CallAgain(PairTexts, PairIntensities, PairClocks, PairSeeds)
SpecPair == InitPair /\ [][NextPair]_vars

\* One invocation whose trials fall in two chosen buckets a and b (ha and hb
\* of them) and otherwise in an edge bucket.  The stream has period 99, and
\* trial t takes its beta() draw from position 2t % 99 of it: the positions
\* 2, 4, .. 20 serve 11 trials each and every other position serves 10.
PeakPairs ==
    {<<0, 1>>, <<1, 39>>, <<39, 40>>, <<40, 60>>, <<60, 61>>, <<61, 75>>,
     <<75, 76>>, <<76, 98>>, <<98, 99>>, <<1, 98>>}
PeakHeights == {10, 11}
PeakRests == {0, 99}
BucketRaw(b) == IF b = 99 THEN 100 * Scale ELSE b * Scale
PeakStream(a, ha, b, hb, rest) ==
    LET slotA == IF ha = 11 THEN 2 ELSE 22
        slotB == IF hb = 11 THEN 4 ELSE 24
    IN  [k \in 1..99 |->
            IF k - 1 = slotA THEN BucketRaw(a)
            ELSE IF k - 1 = slotB THEN BucketRaw(b)
            ELSE BucketRaw(rest)]
PeakSeeds ==
    {PeakStream(p[1], ha, p[2], hb, rest) :
        p \in PeakPairs, ha \in PeakHeights, hb \in PeakHeights,
        rest \in PeakRests}
InitPeaks == InitOf({"test wish"}, {50}, {0}, PeakSeeds)
NextPeaks == Run
SpecPeaks == InitPeaks /\ [][NextPeaks]_vars

\* One invocation at the intensities around the label thresholds, at both
\* ends and the middle of the temporal range, for every constant stream.
LabelIntensities == {1, 40, 41, 70, 71, 100}
LabelClocks == {0, 50, 99}
InitLabel ==
    InitOf({"test wish"}, LabelIntensities, LabelClocks,
           {<<r>> : r \in RawValues})
NextLabel == Run
SpecLabel == InitLabel /\ [][NextLabel]_vars

\* Two invocations in one process.  The first runs alone; the second is
\* called with the same inputs from the same generator state while another
\* invocation is running in a second thread of the process (app.run serves
\* each request in its own thread).  Of that other invocation only its calls
\* to np.random touch anything this one reads: each advances the module's
\* one global generator.
MaxOtherDraws == 2
\* The other invocation's draws are explored where they fall within the
\* first trials of this one, or just before its reference sample.
InterleaveWindow == 2
SharedSeeds == {<<10 * Scale, 85 * Scale>>, <<0, 50 * Scale, 100 * Scale>>}
Interleave ==
    /\ \/ pc = "trials" /\ trial < InterleaveWindow
       \/ pc = "variance"
    /\ first # NoResult
    /\ others < MaxOtherDraws
    /\ rng' = RngStep(rng)
    /\ others' = others + 1
    /\ UNCHANGED <<pc, seed, clock, draws, wish_text, intensity, params,
                   tally, hist, report, first, web>>
InitShared == InitOf({"test wish"}, {50}, {0}, SharedSeeds)
NextShared ==
    \/ Run
    \/ CallAgain({"test wish"}, {50}, {0}, SharedSeeds)
    \/ Interleave
SpecShared == InitShared /\ [][NextShared]_vars

\* ---------------------------------------------------------- the web layer
\* One browser session talking to the site.  A JSON field of a request is
\* absent, null, a number or a string of characters.
MaxRequests == 4
MaxMonth == 1

Absent == [kind |-> "absent", num |-> 0, chars |-> <<>>]
Null == [kind |-> "null", num |-> 0, chars |-> <<>>]
Number(n) == [kind |-> "int", num |-> n, chars |-> <<>>]
String(cs) == [kind |-> "str", num |-> 0, chars |-> cs]

DigitValue(c) ==
    CASE c = "0" -> 0 [] c = "1" -> 1 [] c = "2" -> 2 [] c = "3" -> 3
      [] c = "4" -> 4 [] c = "5" -> 5 [] c = "6" -> 6 [] c = "7" -> 7
      [] c = "8" -> 8 [] c = "9" -> 9
IsDigit(c) == c \in {"0", "1", "2", "3", "4", "5", "6", "7", "8", "9"}

\* int(x) for a string of characters: decimal digits with an optional
\* sign; anything else raises ValueError.
ParseInt(cs) ==
    LET signed == Len(cs) > 0 /\ cs[1] \in {"-", "+"}
        digits == IF signed THEN Tail(cs) ELSE cs
        RECURSIVE Value(_)
        Value(n) ==
            IF n = 0 THEN 0 ELSE 10 * Value(n - 1) + DigitValue(digits[n])
    IN  IF Len(digits) > 0 /\ \A k \in 1..Len(digits) : IsDigit(digits[k])
        THEN [ok |-> TRUE,
              value |-> IF signed /\ cs[1] = "-"
                        THEN 0 - Value(Len(digits))
                        ELSE Value(Len(digits))]
        ELSE [ok |-> FALSE, value |-> 0]

\* app.py 380: int(data.get('intensity', 50)); int(None) raises TypeError.
IntOf(field) ==
    CASE field.kind = "absent" -> [ok |-> TRUE, value |-> 50]
      [] field.kind = "int"    -> [ok |-> TRUE, value |-> field.num]
      [] field.kind = "str"    -> ParseInt(field.chars)
      [] field.kind = "null"   -> [ok |-> FALSE, value |-> 0]

\* models.py 51-58
get_wish_limit(u) ==
    CASE u.subscription_tier = "free"      -> 3
      [] u.subscription_tier = "premium"   -> 10
      [] u.subscription_tier = "unlimited" -> 999999
      [] OTHER                             -> 3

\* can_make_wish without the monthly reset of models.py 70-74.
can_make_wish_NoReset(u, now) ==
    IF u.bonus_wishes > 0 THEN [allowed |-> TRUE, row |-> u]
    ELSE [allowed |-> u.wishes_this_month < get_wish_limit(u), row |-> u]
\* models.py 60-76: can_make_wish; row is the user's row afterwards (the
\* monthly reset is committed at once).
can_make_wish(u, now) ==
    IF u.bonus_wishes > 0 THEN [allowed |-> TRUE, row |-> u]
    ELSE LET r == IF u.last_wish_reset # now
                  THEN [u EXCEPT !.wishes_this_month = 0,
                                 !.last_wish_reset = now]
                  ELSE u
         IN  [allowed |-> r.wishes_this_month < get_wish_limit(r),
              row |-> r]

\* increment_wish_count counting against the month before the bonus.
increment_wish_count_MonthFirst(u) ==
    LET v == IF u.wishes_this_month < get_wish_limit(u)
             THEN [u EXCEPT !.wishes_this_month = @ + 1]
             ELSE [u EXCEPT !.bonus_wishes = @ - 1]
    IN  [v EXCEPT !.total_wishes = @ + 1]
\* models.py 78-90: increment_wish_count
increment_wish_count(u) ==
    LET v == IF u.bonus_wishes > 0
             THEN [u EXCEPT !.bonus_wishes = @ - 1]
             ELSE [u EXCEPT !.wishes_this_month = @ + 1]
    IN  [v EXCEPT !.total_wishes = @ + 1]

Reply(status) == [NoResponse EXCEPT !.status = status]

\* A Stripe checkout session that has been paid: its metadata (guest
\* purchase, single wish or subscription of a tier), the customer's email,
\* the number of times its checkout.session.completed event has been
\* delivered so far and the number of deliveries the handler committed.
Paid(kind, email, tier) ==
    [kind |-> kind, email |-> email, tier |-> tier, delivered |-> 0,
     handled |-> 0]

\* Every handler leaves the simulator's locals alone.
SimLocals ==
    <<pc, seed, clock, draws, others, wish_text, intensity, params, tally,
      hist, report, first>>

\* app.py 372-457: POST /make_wish with the JSON fields wish and intensity.
\* run_wish_simulation is recorded by its arguments and by the 3001 draws
\* it takes from the global generator.  increment_wish_count changes the
\* loaded row after the commit of line 434 and nothing commits it, so the
\* session teardown discards it: the table keeps the committed row while
\* the response reports the incremented one.
MakeWish(wish, intensity_field) ==
    /\ requests < MaxRequests
    /\ requests' = requests + 1
    /\ request' = [route |-> "make_wish", wish |-> wish,
                   intensity |-> Some(intensity_field)]
    /\ LET conv == IntOf(intensity_field)
           i == conv.value
           is_authenticated == session.user_id # None
           email == Get(session.user_id, "")
           check == can_make_wish(users[email], month)
           anonymous_wishes == Get(session.anonymous_wish_count, 0)
           simulate ==
               /\ sim_calls' = sim_calls \cup
                                   {[wish_text |-> wish, intensity |-> i]}
               /\ rng' = RngSkip(rng, 2 * num_trials + 1001)
               /\ wishes' = Append(wishes,
                                   [user_id |-> session.user_id,
                                    wish_text |-> wish, intensity |-> i,
                                    created_at |-> month])
           refuse(r) ==
               /\ response' = r
               /\ UNCHANGED <<rng, users, wishes, session, sim_calls>>
       IN  IF ~conv.ok THEN refuse(Reply(500))
           ELSE IF wish.len = 0 THEN refuse(Reply(400))
           ELSE IF ~(1 <= i /\ i <= 100) THEN refuse(Reply(400))
           ELSE IF wish.len > 500 THEN refuse(Reply(400))
           ELSE IF is_authenticated
           THEN IF ~check.allowed
                THEN /\ users' = [users EXCEPT ![email] = check.row]
                     /\ response' = [Reply(429) EXCEPT !.limit_reached = TRUE]
                     /\ UNCHANGED <<rng, wishes, session, sim_calls>>
                ELSE /\ simulate
                     /\ users' = [users EXCEPT ![email] = check.row]
                     /\ response' =
                            [Reply(200) EXCEPT
                                !.wishes_used =
                                    Some(increment_wish_count(check.row)
                                             .wishes_this_month)]
                     /\ UNCHANGED session
           ELSE IF anonymous_wishes >= 1
                THEN refuse([Reply(429) EXCEPT !.limit_reached = TRUE,
                                               !.anonymous = TRUE])
                ELSE /\ simulate
                     /\ session' =
                            [session EXCEPT !.anonymous_wish_count =
                                                Some(anonymous_wishes + 1)]
                     /\ response' = [Reply(200) EXCEPT !.anonymous = TRUE]
                     /\ UNCHANGED users
    /\ UNCHANGED <<SimLocals, current_user, subscribers, checkout, month>>

\* auth.py 16-86: POST /auth/signup with a well-formed email and password.
Signup(email) ==
    /\ requests < MaxRequests
    /\ requests' = requests + 1
    /\ request' = [NoRequest EXCEPT !.route = "signup"]
    /\ IF session.user_id # None
       THEN /\ response' = Reply(302)
            /\ UNCHANGED <<users, session>>
       ELSE IF users[email].registered
       THEN /\ response' = Reply(200)
            /\ UNCHANGED <<users, session>>
       ELSE /\ users' = [users EXCEPT ![email] = NewUser(0, month)]
            /\ session' = [session EXCEPT !.user_id = Some(email),
                                          !.pending_subscription = None]
            /\ response' = Reply(302)
    /\ UNCHANGED <<SimLocals, current_user, subscribers, rng, wishes, checkout,
                   month, sim_calls>>

\* auth.py 89-119: POST /auth/login.
Login(email, password_ok) ==
    /\ requests < MaxRequests
    /\ requests' = requests + 1
    /\ request' = [NoRequest EXCEPT !.route = "login"]
    /\ IF session.user_id # None
       THEN /\ response' = Reply(302)
            /\ UNCHANGED session
       ELSE IF ~users[email].registered \/ ~password_ok
       THEN /\ response' = Reply(200)
            /\ UNCHANGED session
       ELSE /\ session' = [session EXCEPT !.user_id = Some(email)]
            /\ response' = Reply(302)
    /\ UNCHANGED <<SimLocals, current_user, subscribers, rng, users, wishes, checkout, month,
                   sim_calls>>

\* auth.py 122-151: GET /auth/logout; login_required redirects a visitor
\* who is not logged in to the login page.
Logout ==
    /\ requests < MaxRequests
    /\ requests' = requests + 1
    /\ request' = [NoRequest EXCEPT !.route = "logout"]
    /\ session' = IF session.user_id # None THEN EmptySession ELSE session
    /\ response' = Reply(302)
    /\ UNCHANGED <<SimLocals, current_user, subscribers, rng, users, wishes, checkout, month,
                   sim_calls>>

\* payments.py 431-452: GET /payments/buy-single-wish-guest; the visitor
\* is sent to Stripe and pays there under the given email.
BuySingleWishGuest(email) ==
    /\ requests < MaxRequests
    /\ requests' = requests + 1
    /\ request' = [NoRequest EXCEPT !.route = "buy_single_wish_guest"]
    /\ session' = [session EXCEPT !.guest_purchase_ref = Some("ref")]
    /\ checkout' = Some(Paid("guest", email, ""))
    /\ response' = Reply(302)
    /\ UNCHANGED <<SimLocals, current_user, subscribers, rng, users, wishes, month, sim_calls>>

\* payments.py 36-72 and 128-160: the checkout is created for a Stripe
\* customer, who is registered with the user's row on the first purchase.
WithCustomer(u, email) ==
    IF u.stripe_customer_id = None
    THEN [u EXCEPT !.stripe_customer_id = Some(email)]
    ELSE u

\* payments.py 374-407: GET /payments/subscribe/<tier>; a logged-in
\* user is sent to Stripe and pays there.
Subscribe(tier) ==
    /\ requests < MaxRequests
    /\ requests' = requests + 1
    /\ request' = [NoRequest EXCEPT !.route = "subscribe"]
    /\ response' = Reply(302)
    /\ IF tier \notin {"premium", "unlimited"}
       THEN UNCHANGED <<users, session, checkout>>
       ELSE IF session.user_id = None
       THEN /\ session' = [session EXCEPT !.pending_subscription = Some(tier)]
            /\ UNCHANGED <<users, checkout>>
       ELSE LET email == session.user_id[1]
            IN  IF /\ users[email].subscription_tier = tier
                   /\ users[email].subscription_status = "active"
                THEN UNCHANGED <<users, session, checkout>>
                ELSE /\ users' = [users EXCEPT
                                     ![email] = WithCustomer(@, email)]
                     /\ checkout' = Some(Paid("subscription", email, tier))
                     /\ UNCHANGED session
    /\ UNCHANGED <<SimLocals, current_user, subscribers, rng, wishes, month,
                   sim_calls>>

\* payments.py 410-428: GET /payments/buy-single-wish (login_required).
BuySingleWish ==
    /\ requests < MaxRequests
    /\ requests' = requests + 1
    /\ request' = [NoRequest EXCEPT !.route = "buy_single_wish"]
    /\ response' = Reply(302)
    /\ IF session.user_id = None
       THEN UNCHANGED <<users, checkout>>
       ELSE LET email == session.user_id[1]
            IN  /\ users' = [users EXCEPT ![email] = WithCustomer(@, email)]
                /\ checkout' = Some(Paid("single_wish", email, ""))
    /\ UNCHANGED <<SimLocals, current_user, subscribers, rng, wishes, session,
                   month, sim_calls>>

\* The subscription update that always activates the premium tier.
ActivateSubscriptionPremium(u, tier, subscription_id, now) ==
    [u EXCEPT !.subscription_tier = "premium",
              !.stripe_subscription_id = Some(subscription_id),
              !.subscription_status = "active",
              !.wishes_this_month = 0,
              !.last_wish_reset = now]
\* payments.py 278-286: the update of the user's row for a subscription.
ActivateSubscription(u, tier, subscription_id, now) ==
    [u EXCEPT !.subscription_tier = tier,
              !.stripe_subscription_id = Some(subscription_id),
              !.subscription_status = "active",
              !.wishes_this_month = 0,
              !.last_wish_reset = now]

\* payments.py 203-298: the user rows after handle_checkout_completed
\* has committed.
CheckoutCompleted(paid) ==
    LET email == paid.email
    IN  IF paid.kind = "guest"
        THEN IF users[email].registered
             THEN [users EXCEPT ![email].bonus_wishes = @ + 1]
             ELSE [users EXCEPT ![email] = NewUser(1, month)]
        ELSE IF paid.kind = "single_wish"
        THEN [users EXCEPT ![email].bonus_wishes = @ + 1]
        ELSE [users EXCEPT
                 ![email] = ActivateSubscription(@, paid.tier, email, month)]

\* payments.py 203-298 and 524-557: Stripe delivers checkout.session
\* .completed for the paid checkout, any number of times.  A commit that
\* fails (db_ok is FALSE) is rolled back by the handler's except clause;
\* the webhook answers 200 either way.  The request comes from Stripe,
\* not from the browser, so the browser's session is not touched.
StripeWebhook(db_ok) ==
    /\ requests < MaxRequests
    /\ checkout # None
    /\ requests' = requests + 1
    /\ request' = [NoRequest EXCEPT !.route = "webhook"]
    /\ users' = IF db_ok THEN CheckoutCompleted(checkout[1]) ELSE users
    /\ checkout' = Some([checkout[1] EXCEPT
                            !.delivered = @ + 1,
                            !.handled = IF db_ok THEN @ + 1 ELSE @])
    /\ response' = Reply(200)
    /\ UNCHANGED <<SimLocals, current_user, subscribers, rng, wishes, session,
                   month, sim_calls>>

\* payments.py 300-329 and 546-551: Stripe delivers customer.subscription
\* .updated or .deleted for the subscription of the user with this email,
\* reporting its status.
SubscriptionUpdated(email, status, db_ok) ==
    /\ requests < MaxRequests
    /\ requests' = requests + 1
    /\ request' = [NoRequest EXCEPT !.route = "webhook"]
    /\ users' =
           IF users[email].stripe_subscription_id = None \/ ~db_ok
           THEN users
           ELSE IF status \in {"canceled", "unpaid"}
           THEN [users EXCEPT ![email].subscription_status = status,
                              ![email].subscription_tier = "free",
                              ![email].wishes_this_month = 0]
           ELSE [users EXCEPT ![email].subscription_status = status]
    /\ response' = Reply(200)
    /\ UNCHANGED <<SimLocals, current_user, subscribers, rng, wishes, session,
                   checkout, month, sim_calls>>

\* payments.py 471-503: GET /payments/guest-purchase/success, to which
\* Stripe redirects the browser after the payment.
GuestPurchaseSuccess ==
    /\ requests < MaxRequests
    /\ checkout # None
    /\ requests' = requests + 1
    /\ request' = [NoRequest EXCEPT !.route = "guest_purchase_success"]
    /\ session' =
           IF users[checkout[1].email].registered
           THEN [session EXCEPT !.user_id = Some(checkout[1].email),
                                !.guest_purchase_ref = None,
                                !.anonymous_wish_count = None]
           ELSE session
    /\ response' = Reply(302)
    /\ UNCHANGED <<SimLocals, current_user, subscribers, rng, users, wishes, checkout, month,
                   sim_calls>>

\* JSON values of the profile form: an array of n theme names, a boolean.
List(n) == [kind |-> "list", num |-> n, chars |-> <<>>]
Bool(b) == [kind |-> "bool", num |-> IF b THEN 1 ELSE 0, chars |-> <<>>]

\* update_profile accepting up to four themes.
ProfileStatusFourThemes(wish_themes, open_to_connect) ==
    IF wish_themes.kind \notin {"list", "absent"} THEN 400
    ELSE IF wish_themes.kind = "list" /\ wish_themes.num > 4 THEN 400
    ELSE IF open_to_connect.kind \notin {"bool", "absent"} THEN 400
    ELSE 200
\* auth.py 269-280: the validation of update_profile; a missing
\* wish_themes is [] and a missing open_to_connect is False.
ProfileStatus(wish_themes, open_to_connect) ==
    IF wish_themes.kind \notin {"list", "absent"} THEN 400
    ELSE IF wish_themes.kind = "list" /\ wish_themes.num > 3 THEN 400
    ELSE IF open_to_connect.kind \notin {"bool", "absent"} THEN 400
    ELSE 200

\* auth.py 262-291: POST /auth/api/profile/update.  login_required loads
\* the user's row into current_user.  wish_themes and open_to_connect are
\* not columns of the users table (models.py 19-38), so lines 282-283 set
\* plain attributes of the loaded object and the commit of line 284 writes
\* nothing.
UpdateProfile(wish_themes, open_to_connect) ==
    /\ requests < MaxRequests
    /\ requests' = requests + 1
    /\ request' = [NoRequest EXCEPT !.route = "update_profile"]
    /\ IF session.user_id = None
       THEN /\ response' = Reply(302)
            /\ UNCHANGED current_user
       ELSE LET row == users[session.user_id[1]]
                status == ProfileStatus(wish_themes, open_to_connect)
            IN  /\ response' = Reply(status)
                /\ current_user' =
                       IF status = 200
                       THEN Some([wish_themes |->
                                      IF wish_themes.kind = "list"
                                         /\ wish_themes.num > 0
                                      THEN Some(wish_themes.num) ELSE None,
                                  open_to_connect |->
                                      open_to_connect.kind = "bool"
                                      /\ open_to_connect.num = 1]
                                 @@ row)
                       ELSE Some(row)
    /\ UNCHANGED <<SimLocals, subscribers, rng, users, wishes, session,
                   checkout, month, sim_calls>>

\* str.lower() and str.strip() on the characters of the modelled emails.
Lower(c) ==
    CASE c = "A" -> "a"
      [] c = "B" -> "b"
      [] c = "C" -> "c"
      [] OTHER   -> c
RECURSIVE StripLeft(_)
StripLeft(cs) ==
    IF cs = <<>> THEN <<>>
    ELSE IF Head(cs) = " " THEN StripLeft(Tail(cs))
    ELSE cs
RECURSIVE StripRight(_)
StripRight(cs) ==
    IF cs = <<>> THEN <<>>
    ELSE IF cs[Len(cs)] = " " THEN StripRight(SubSeq(cs, 1, Len(cs) - 1))
    ELSE cs
\* app.py 519: .strip().lower()
Normalise(cs) ==
    LET t == StripRight(StripLeft(cs))
    IN  [k \in 1..Len(t) |-> Lower(t[k])]

\* app.py 526: '@' not in email or '.' not in email.split('@')[1]
RECURSIVE UpToAt(_)
UpToAt(cs) ==
    IF cs = <<>> \/ Head(cs) = "@" THEN <<>>
    ELSE <<Head(cs)>> \o UpToAt(Tail(cs))
SecondPart(cs) ==
    LET first_at == CHOOSE k \in 1..Len(cs) :
                        cs[k] = "@" /\ \A j \in 1..(k - 1) : cs[j] # "@"
    IN  UpToAt(SubSeq(cs, first_at + 1, Len(cs)))
ValidEmail(cs) ==
    /\ \E k \in 1..Len(cs) : cs[k] = "@"
    /\ \E k \in 1..Len(SecondPart(cs)) : SecondPart(cs)[k] = "."

\* models.py 180-202: a row of email_subscribers.
NewSubscriber(email) ==
    [email |-> email, status |-> "active", unsubscribed_at |-> None]
\* app.py 532: EmailSubscriber.query.filter_by(email=email).first(), as
\* the index of the row, 0 when there is none.
Existing(email) ==
    IF \E k \in 1..Len(subscribers) : subscribers[k].email = email
    THEN CHOOSE k \in 1..Len(subscribers) :
             /\ subscribers[k].email = email
             /\ \A j \in 1..(k - 1) : subscribers[j].email # email
    ELSE 0

\* app.py 514-572: POST /api/subscribe-email with the JSON field email.
\* A value that is not a string has no strip() and the except clause
\* answers 500; so does the insert of a second row for an email, which
\* the unique constraint of models.py 185 refuses.
SubscribeEmail(field) ==
    /\ requests < MaxRequests
    /\ requests' = requests + 1
    /\ request' = [NoRequest EXCEPT !.route = "subscribe_email"]
    /\ IF field.kind \notin {"str", "absent"}
       THEN response' = Reply(500) /\ UNCHANGED subscribers
       ELSE LET email == Normalise(field.chars)
                k == Existing(email)
            IN  IF email = <<>> THEN
                    response' = Reply(400) /\ UNCHANGED subscribers
                ELSE IF ~ValidEmail(email) THEN
                    response' = Reply(400) /\ UNCHANGED subscribers
                ELSE IF k # 0 /\ subscribers[k].status = "active" THEN
                    /\ response' =
                           [Reply(200) EXCEPT !.already_subscribed = TRUE]
                    /\ UNCHANGED subscribers
                ELSE IF k # 0 /\ subscribers[k].status = "unsubscribed" THEN
                    /\ subscribers' =
                           [subscribers EXCEPT ![k].status = "active",
                                               ![k].unsubscribed_at = None]
                    /\ response' = Reply(200)
                ELSE IF k # 0 THEN
                    response' = Reply(500) /\ UNCHANGED subscribers
                ELSE
                    /\ subscribers' =
                           Append(subscribers, NewSubscriber(email))
                    /\ response' = Reply(201)
    /\ UNCHANGED <<SimLocals, current_user, rng, users, wishes, session,
                   checkout, month, sim_calls>>

\* models.py 193: the status of an active subscriber becomes unsubscribed
\* (with unsubscribed_at) or bounced; the mailing side does this, no
\* handler of the application.
MarkSubscriber(k, status) ==
    /\ k \in 1..Len(subscribers)
    /\ subscribers[k].status = "active"
    /\ subscribers' =
           [subscribers EXCEPT
               ![k].status = status,
               ![k].unsubscribed_at =
                   IF status = "unsubscribed" THEN Some(month) ELSE None]
    /\ UNCHANGED <<SimLocals, current_user, rng, users, wishes, session,
                   checkout, month, request, response, sim_calls, requests>>

\* The calendar month changes between two requests.
NextMonth ==
    /\ month < MaxMonth
    /\ month' = month + 1
    /\ UNCHANGED <<SimLocals, current_user, subscribers, rng, users, wishes, session, checkout,
                   request, response, sim_calls, requests>>

\* The wish and intensity fields the modelled clients send.
WebWishes == {WishText(0), WishText(1), WishText(500), WishText(501)}
WebIntensities ==
    {Absent, Null, Number(0), Number(1), Number(100), Number(101),
     String(<<"7">>), String(<<"a", "b", "c">>), String(<<"-", "1">>)}

InitWeb ==
    /\ pc = "idle"
    /\ wish_text = "" /\ intensity = 0 /\ clock = 0
    /\ rng = [cycle |-> <<10 * Scale, 85 * Scale>>, pos |-> 0]
    /\ seed = rng
    /\ draws = 0 /\ others = 0
    /\ first = NoResult
    /\ Locals0
    /\ Web0
NextWeb ==
    \/ \E w \in WebWishes, i \in WebIntensities : MakeWish(w, i)
    \/ \E e \in Emails : Signup(e)
    \/ \E e \in Emails, ok \in BOOLEAN : Login(e, ok)
    \/ Logout
    \/ \E e \in Emails : BuySingleWishGuest(e)
    \/ \E db_ok \in BOOLEAN : StripeWebhook(db_ok)
    \/ GuestPurchaseSuccess
    \/ NextMonth
SpecWeb == InitWeb /\ [][NextWeb]_vars

\* A member's browser: ann has signed up (auth.py 56-66 leaves her row and
\* a session logged in as her) and sends well-formed wishes.
Member == "ann@example.com"
MemberIntensities == {Absent, Number(100)}
InitMember ==
    /\ pc = "idle"
    /\ wish_text = "" /\ intensity = 0 /\ clock = 0
    /\ rng = [cycle |-> <<10 * Scale, 85 * Scale>>, pos |-> 0]
    /\ seed = rng
    /\ draws = 0 /\ others = 0
    /\ first = NoResult
    /\ Locals0
    /\ users = [e \in Emails |-> IF e = Member THEN NewUser(0, 0) ELSE NoUser]
    /\ wishes = <<>>
    /\ session = [EmptySession EXCEPT !.user_id = Some(Member)]
    /\ checkout = None
    /\ current_user = None
    /\ subscribers = <<>>
    /\ month = 0
    /\ request = NoRequest
    /\ response = NoResponse
    /\ sim_calls = {}
    /\ requests = 0
NextMember ==
    \/ \E i \in MemberIntensities : MakeWish(WishText(1), i)
    \/ \E ok \in BOOLEAN : Login(Member, ok)
    \/ Logout
    \/ NextMonth
SpecMember == InitMember /\ [][NextMember]_vars

\* The member edits the profile form of the account page.
ProfileThemes ==
    {Absent, Null, String(<<"a">>), List(0), List(1), List(2), List(3), List(4),
     List(5)}
ProfileConnects == {Absent, Null, Number(1), String(<<"a">>), Bool(TRUE),
                    Bool(FALSE)}
NextProfile ==
    \/ \E t \in ProfileThemes, c \in ProfileConnects : UpdateProfile(t, c)
    \/ \E ok \in BOOLEAN : Login(Member, ok)
    \/ Logout
SpecProfile == InitMember /\ [][NextProfile]_vars

\* The member buys wishes and subscriptions, and Stripe reports to the
\* webhook.
SubscribeTiers == {"premium", "unlimited", "gold"}
SubscriptionStatuses == {"active", "past_due", "canceled", "unpaid"}
NextBilling ==
    \/ \E tier \in SubscribeTiers : Subscribe(tier)
    \/ BuySingleWish
    \/ \E db_ok \in BOOLEAN : StripeWebhook(db_ok)
    \/ \E status \in SubscriptionStatuses, db_ok \in BOOLEAN :
           SubscriptionUpdated(Member, status, db_ok)
    \/ \E ok \in BOOLEAN : Login(Member, ok)
    \/ Logout
    \/ NextMonth
SpecBilling == InitMember /\ [][NextBilling]_vars

\* Visitors leave their email in the subscription form.
SubscriberEmails ==
    {Absent, Null, String(<<>>), String(<<" ">>),
     String(<<"a", "@", "b">>), String(<<"a", ".", "b">>),
     String(<<"a", "@", "b", ".", "c">>),
     String(<<" ", "A", "@", "B", ".", "c", " ">>),
     String(<<"c", "@", "b", ".", "a">>)}
NextSubscribers ==
    \/ \E f \in SubscriberEmails : SubscribeEmail(f)
    \/ \E k \in 1..MaxRequests, status \in {"unsubscribed", "bounced"} :
           MarkSubscriber(k, status)
    \/ NextMonth
SpecSubscribers == InitWeb /\ [][NextSubscribers]_vars

\* The methods of one User object (models.py 51-90) called in any order, as
\* a shell or a test does: current_user is the loaded object and users
\* holds what has been committed.
MaxBonus == 2
MaxWishCount == 4
Tiers == {"free", "premium", "unlimited"}
InitUser ==
    /\ pc = "idle"
    /\ wish_text = "" /\ intensity = 0 /\ clock = 0
    /\ rng = [cycle |-> <<10 * Scale, 85 * Scale>>, pos |-> 0]
    /\ seed = rng
    /\ draws = 0 /\ others = 0
    /\ first = NoResult
    /\ Locals0
    /\ \E tier \in Tiers, bonus \in 0..MaxBonus :
           LET row == [NewUser(bonus, 0) EXCEPT !.subscription_tier = tier]
           IN  /\ users = [e \in Emails |-> IF e = Member THEN row ELSE NoUser]
               /\ current_user = Some(row)
    /\ wishes = <<>>
    /\ session = [EmptySession EXCEPT !.user_id = Some(Member)]
    /\ checkout = None
    /\ subscribers = <<>>
    /\ month = 0
    /\ request = NoRequest
    /\ response = NoResponse
    /\ sim_calls = {}
    /\ requests = 0

\* models.py 78-90: current_user.increment_wish_count(); nothing is
\* committed.
IncrementWishCount ==
    /\ current_user # None
    /\ current_user[1].total_wishes < MaxWishCount
    /\ current_user' = Some(increment_wish_count(current_user[1]))
    /\ request' = [NoRequest EXCEPT !.route = "increment_wish_count"]
    /\ response' = NoResponse
    /\ UNCHANGED <<SimLocals, subscribers, rng, users, wishes, session,
                   checkout, month, sim_calls, requests>>

\* models.py 60-76 and app.py 397-403: current_user.can_make_wish() and
\* the refusal that follows a False.  The commit of the monthly reset
\* (line 74) writes the whole object to the table.
CanMakeWish ==
    /\ current_user # None
    /\ LET u == current_user[1]
           c == can_make_wish(u, month)
       IN  /\ current_user' = Some(c.row)
           /\ users' = IF u.bonus_wishes <= 0 /\ u.last_wish_reset # month
                       THEN [users EXCEPT ![Member] = c.row]
                       ELSE users
           /\ response' = IF c.allowed THEN NoResponse
                           ELSE [Reply(429) EXCEPT !.limit_reached = TRUE]
    /\ request' = [NoRequest EXCEPT !.route = "can_make_wish"]
    /\ UNCHANGED <<SimLocals, subscribers, rng, wishes, session, checkout,
                   month, sim_calls, requests>>

NextUser ==
    \/ IncrementWishCount
    \/ CanMakeWish
    \/ NextMonth
SpecUser == InitUser /\ [][NextUser]_vars

\* ------------------------------------------------------------------ claims
SumHist(h) ==
    LET RECURSIVE Upto(_)
        Upto(i) == IF i < 0 THEN 0 ELSE h[i] + Upto(i - 1)
    IN  Upto(NumBuckets - 1)

Returned == pc = "done"

\* C1: in the returned result manifested_count + not_manifested_count equals
\* num_trials, which is 1000.
C1_CountsSumToNumTrials ==
    Returned =>
        /\ Result.manifested_count + Result.not_manifested_count
               = Result.num_trials
        /\ Result.num_trials = 1000
C1_Witness ==
    /\ Returned
    /\ results.manifested > 0
    /\ results.not_manifested > 0
    /\ \E k \in 1..3 : trial_outcomes[k] = 50 * Scale

\* C2: the returned trial_histogram has 100 buckets that sum to 1000.
C2_TrialHistogramSum ==
    Returned =>
        /\ DOMAIN Result.trial_histogram = 0..99
        /\ SumHist(Result.trial_histogram) = 1000
C2_Witness ==
    /\ Returned
    /\ trial_histogram[0] > 0
    /\ trial_histogram[99] > 0
    /\ trial_histogram[50] > 0

\* C3: the returned baseline_histogram has 100 buckets that sum to 1000.
C3_BaselineHistogramSum ==
    Returned =>
        /\ DOMAIN Result.baseline_histogram = 0..99
        /\ SumHist(Result.baseline_histogram) = 1000

\* C4: once derived, consciousness_weight lies in [0, 0.95], for every
\* intensity in 1..100, noise factor in [0.8, 1.2] and temporal factor in
\* [1.0, 1.1].
C4_WeightInRange ==
    pc # "start" =>
        /\ intensity \in 1..100
        /\ quantum_noise \in 80..120
        /\ temporal_factor \in 1000..1100
        /\ consciousness_weight >= 0
        /\ consciousness_weight * 100 <= 95 * WeightDen
C4_Witness ==
    /\ pc # "start"
    /\ consciousness_level > WeightCap
    /\ consciousness_weight * 100 = 95 * WeightDen

\* C5: a second invocation with the same text, intensity, generator seed and
\* clock value returns the same result as the first, in every field.
C5_Deterministic ==
    (/\ Returned
     /\ first # NoResult
     /\ wish_text = first.result.wish
     /\ intensity = first.result.intensity
     /\ seed = first.seed
     /\ clock = first.clock) => Result = first.result
C5_Witness ==
    /\ Returned
    /\ first # NoResult
    /\ wish_text = first.result.wish
    /\ intensity = first.result.intensity
    /\ seed = first.seed
    /\ clock = first.clock
    /\ Len(detected_peaks) >= 2

\* C6: a second invocation with the same text and intensity returns the same
\* preference_strength, whatever the generator seed and the clock value.
C6_PreferenceDependsOnInputsOnly ==
    (/\ Returned
     /\ first # NoResult
     /\ wish_text = first.result.wish
     /\ intensity = first.result.intensity) =>
        Result.preference_strength = first.result.preference_strength
C6_Witness ==
    /\ Returned
    /\ first # NoResult
    /\ wish_text = first.result.wish
    /\ intensity = first.result.intensity
    /\ seed # first.seed
    /\ clock % 100 # first.clock % 100
    /\ Result.quantum_coherence # first.result.quantum_coherence

\* C7: at intensity 50 with noise factor 1.0 and temporal factor 1.0 the
\* derived consciousness_weight is exactly 0.5.
C7_HalfAtFifty ==
    (/\ pc # "start"
     /\ intensity = 50
     /\ quantum_noise = 100
     /\ temporal_factor = 1000) => 2 * consciousness_weight = WeightDen
C7_Witness ==
    /\ pc = "trials"
    /\ intensity = 50
    /\ quantum_noise = 100
    /\ temporal_factor = 1000

\* The buckets of h that qualify as peaks.
Qualifying(h) ==
    {i \in 1..98 : h[i] > h[i - 1] /\ h[i] > h[i + 1] /\ h[i] > 10}

\* C8: when no bucket of the trial histogram qualifies as a peak, the
\* returned dominant_peak is 50 and peak_shift is 0.
C8_NoPeakDefault ==
    (Returned /\ Qualifying(trial_histogram) = {}) =>
        /\ Result.detected_peaks = <<>>
        /\ Result.dominant_peak = 50
        /\ Result.peak_shift = 0
C8_Witness ==
    /\ Returned
    /\ Qualifying(trial_histogram) = {}
    /\ trial_histogram[99] = 1000

\* C9: the returned separation_score is 0 with fewer than two peaks, lies in
\* [0, 1], and with two or more peaks is min(1, |p - q| / 50) for two peaks
\* p, q that no other peak exceeds in height.
C9_SeparationScore ==
    Returned =>
        LET h == trial_histogram
            P == Qualifying(h)
            score == Result.separation_score
        IN  /\ score \in 0..50
            /\ Cardinality(P) < 2 => score = 0
            /\ Cardinality(P) >= 2 =>
                   \E p, q \in P :
                       /\ p # q
                       /\ \A r \in P \ {p, q} : h[r] <= h[p] /\ h[r] <= h[q]
                       /\ score = Min(50, Abs(p - q))
C9_Witness ==
    /\ Returned
    /\ Cardinality(Qualifying(trial_histogram)) = 3
    /\ trial_histogram[85] > trial_histogram[10]
    /\ separation_score = 50

\* C10: every bucket index computed during the aggregation is an integer in
\* 0..99, and every bucket of trial_histogram is a non-negative integer at
\* every point of the aggregation.
C10_BucketsInRange ==
    pc \in {"buckets", "baseline", "peaks", "variance", "separation", "done"}
        => /\ bucket_index \in 0..99
           /\ DOMAIN trial_histogram = 0..99
           /\ \A i \in 0..99 : trial_histogram[i] \in Nat
C10_Witness ==
    /\ pc = "buckets"
    /\ visited >= 3
    /\ {trial_outcomes[visited - k] : k \in 0..2}
           = {0, 100 * Scale - 1, 100 * Scale}
    /\ bucket_index = 99

\* C11: a trial is counted as manifested exactly when its clipped value is
\* strictly greater than 50; a value of exactly 50 is counted as not
\* manifested.
C11_ManifestedIffAbove50 ==
    [][(pc = "trials" /\ trial' = trial + 1) =>
          LET outcome == trial_outcomes'[Len(trial_outcomes')]
          IN  /\ outcome \in 0..(100 * Scale)
              /\ outcome > 50 * Scale =>
                     /\ results'.manifested = results.manifested + 1
                     /\ results'.not_manifested = results.not_manifested
              /\ outcome <= 50 * Scale =>
                     /\ results'.manifested = results.manifested
                     /\ results'.not_manifested = results.not_manifested + 1
      ]_vars
C11_Witness ==
    /\ pc = "trials"
    /\ trial = 2
    /\ trial_outcomes = <<50 * Scale, 85 * Scale>>
    /\ results = [manifested |-> 1, not_manifested |-> 1]

\* C13: the returned detected_peaks is in non-increasing order of height;
\* when it is not empty, dominant_peak is the position of its first element
\* and no qualifying bucket is taller than the dominant one.
C13_PeaksSortedDominantFirst ==
    Returned =>
        LET peaks == Result.detected_peaks
        IN  /\ \A k \in 1..(Len(peaks) - 1) :
                   peaks[k].height >= peaks[k + 1].height
            /\ peaks # <<>> =>
                   /\ Result.dominant_peak = peaks[1].position
                   /\ \A i \in Qualifying(trial_histogram) :
                          trial_histogram[i]
                              <= trial_histogram[Result.dominant_peak]
C13_Witness ==
    /\ Returned
    /\ Len(detected_peaks) = 3
    /\ dominant_peak = 50
    /\ trial_histogram[50] > trial_histogram[10]
    /\ trial_histogram[50] > trial_histogram[85]

\* C12: a bucket i is in detected_peaks if and only if 1 <= i <= 98,
\* h[i] > h[i-1], h[i] > h[i+1] and h[i] > 10 (so buckets 0 and 99 never
\* are); each peak is listed once with its height h[i], and its type is
\* 'consciousness' if i > 75, 'baseline' if 40 <= i <= 60 and 'transition'
\* otherwise.
C12_PeaksExactlyLocalMaxima ==
    Returned =>
        LET h == trial_histogram
            peaks == Result.detected_peaks
        IN  /\ \A i \in 0..(NumBuckets - 1) :
                   (\E k \in 1..Len(peaks) : peaks[k].position = i) <=>
                       /\ 1 <= i /\ i <= 98
                       /\ h[i] > h[i - 1] /\ h[i] > h[i + 1] /\ h[i] > 10
            /\ \A k, l \in 1..Len(peaks) :
                   peaks[k].position = peaks[l].position => k = l
            /\ \A k \in 1..Len(peaks) :
                   LET i == peaks[k].position
                   IN  /\ peaks[k].height = h[i]
                       /\ i > 75 => peaks[k].type = "consciousness"
                       /\ (40 <= i /\ i <= 60) => peaks[k].type = "baseline"
                       /\ (i < 40 \/ (60 < i /\ i <= 75)) =>
                              peaks[k].type = "transition"
C12_Witness ==
    /\ Returned
    /\ trial_histogram[61] = 10 /\ trial_histogram[75] = 11
    /\ trial_histogram[0] = 979
    /\ detected_peaks =
           <<[position |-> 75, height |-> 11, type |-> "transition"]>>

\* C14: the returned coherence_label is 'High' exactly when
\* consciousness_weight > 0.7, 'Medium' exactly when it is in (0.4, 0.7],
\* and 'Low' exactly when it is <= 0.4.
C14_LabelThresholds ==
    Returned =>
        LET w == Result.quantum_coherence
            label == Result.coherence_label
        IN  /\ label = "High" <=> w * 10 > 7 * WeightDen
            /\ label = "Medium" <=>
                   (w * 10 > 4 * WeightDen /\ w * 10 <= 7 * WeightDen)
            /\ label = "Low" <=> w * 10 <= 4 * WeightDen
C14_Witness ==
    /\ Returned
    /\ intensity = 70
    /\ consciousness_weight * 10 = 7 * WeightDen
    /\ coherence_label = "Medium"

\* C15: at intensity 100, whatever the noise factor in [0.8, 1.2] and the
\* temporal factor in [1.0, 1.1], consciousness_weight is in [0.80, 0.95],
\* is 0.95 whenever noise * temporal >= 0.95, and coherence_label is 'High'.
C15_MaxIntensityHigh ==
    (Returned /\ intensity = 100) =>
        /\ quantum_noise \in 80..120
        /\ temporal_factor \in 1000..1100
        /\ Result.quantum_coherence * 100 >= 80 * WeightDen
        /\ Result.quantum_coherence * 100 <= 95 * WeightDen
        /\ quantum_noise * temporal_factor >= 95000 =>
               Result.quantum_coherence = WeightCap
        /\ Result.coherence_label = "High"
C15_Witness ==
    /\ Returned
    /\ intensity = 100
    /\ quantum_noise = 80 /\ temporal_factor = 1000
    /\ consciousness_weight * 100 = 80 * WeightDen
    /\ coherence_label = "High"

\* C16: at intensity 1, whatever the noise factor in [0.8, 1.2] and the
\* temporal factor in [1.0, 1.1], consciousness_weight is at most 0.02, is
\* the unclamped level / (10**15 * 2), and coherence_label is 'Low'.
C16_MinIntensityLow ==
    (Returned /\ intensity = 1) =>
        /\ quantum_noise \in 80..120
        /\ temporal_factor \in 1000..1100
        /\ Result.quantum_coherence * 100 <= 2 * WeightDen
        /\ Result.quantum_coherence = quantum_noise * temporal_factor
        /\ Result.quantum_coherence < WeightCap
        /\ Result.coherence_label = "Low"
C16_Witness ==
    /\ Returned
    /\ intensity = 1
    /\ quantum_noise = 120 /\ temporal_factor = 1099
    /\ consciousness_weight = 131880
    /\ coherence_label = "Low"

\* C17 as stated: one invocation consumes exactly 2000 pseudo-random draws
\* in total, 1000 for the trials and 1000 for the reference sample.
C17_TwoThousandDraws ==
    /\ (pc = "histogram") => draws = num_trials
    /\ Returned => draws = 2 * num_trials

\* The steps an invocation still has to take: what is left of the two
\* loops and the straight-line stages after them.
StepsLeft ==
    CASE pc = "start"      -> 1 + num_trials + 1 + num_trials + 4
      [] pc = "trials"     -> (num_trials - trial) + 1 + num_trials + 4
      [] pc = "histogram"  -> 1 + num_trials + 4
      [] pc = "buckets"    -> (num_trials - visited) + 4
      [] pc = "baseline"   -> 4
      [] pc = "peaks"      -> 3
      [] pc = "variance"   -> 2
      [] pc = "separation" -> 1
      [] pc = "done"       -> 0

\* C17, amended: one invocation terminates after exactly 1000 trials (each
\* step brings the return one step nearer, and no loop is entered with its
\* condition false) and makes exactly 3001 draws from the global generator:
\* 1 for the noise factor, 2 for each trial (random() and beta()) and 1000
\* for the reference sample.
C17_TerminatesAfter3001Draws ==
    /\ [][StepsLeft' = StepsLeft - 1]_vars
    /\ [](pc = "trials" => (trial < num_trials /\ draws = 1 + 2 * trial))
    /\ [](pc = "buckets" =>
              (visited < num_trials /\ Len(trial_outcomes) = num_trials))
    /\ [](pc = "histogram" =>
              (trial = num_trials /\ draws = 1 + 2 * num_trials))
    /\ [](Returned =>
              /\ trial = num_trials
              /\ Len(trial_outcomes) = num_trials
              /\ draws = 1 + 2 * num_trials + 1000)
C17_Witness ==
    /\ Returned
    /\ trial = 1000
    /\ draws = 3001

\* C18: the simulator owns no shared mutable state: an invocation that is
\* interleaved with another one in the same process returns the result it
\* returns when run alone from the same generator state and clock value.
C18_InterleavedSameResult ==
    (/\ Returned
     /\ first # NoResult
     /\ first.seed = seed
     /\ first.clock = clock
     /\ first.result.wish = wish_text
     /\ first.result.intensity = intensity) => Result = first.result

\* A make_wish request the caller must reject: the text is empty or longer
\* than 500 characters, or the intensity is a number outside 1..100.
InvalidWish(r) ==
    \/ r.wish.len = 0
    \/ r.wish.len > 500
    \/ LET field == r.intensity[1]
       IN  \/ field.kind = "int" /\ field.num \notin 1..100
           \/ /\ field.kind = "str"
              /\ ParseInt(field.chars).ok
              /\ ParseInt(field.chars).value \notin 1..100

\* C19: make_wish never invokes run_wish_simulation with an empty text, a
\* text longer than 500 characters or an intensity outside 1..100; each
\* such request is answered with status 400, stores no Wish record and
\* changes no wish counter of the user or of the session.
C19_InvalidWishAnswered400 ==
    [][(requests' = requests + 1 /\ request'.route = "make_wish") =>
          /\ \A call \in sim_calls' :
                 /\ call.wish_text.len \in 1..500
                 /\ call.intensity \in 1..100
          /\ InvalidWish(request') =>
                 /\ response'.status = 400
                 /\ sim_calls' = sim_calls
                 /\ wishes' = wishes
                 /\ users' = users
                 /\ session' = session
      ]_vars

\* The wishes stored for a visitor who was not logged in: the rows whose
\* user_id is NULL.
AnonymousWishes == {k \in 1..Len(wishes) : wishes[k].user_id = None}

\* C20: an unauthenticated visitor gets one free wish: in any sequence of
\* make_wish, signup, login, logout and guest purchase requests on one
\* browser session at most one make_wish made while unauthenticated
\* succeeds, and every later well-formed one is answered with status 429
\* and limit_reached.
C20_OneFreeAnonymousWish ==
    /\ [](Cardinality(AnonymousWishes) <= 1)
    /\ [][(/\ requests' = requests + 1
           /\ request'.route = "make_wish"
           /\ session.user_id = None
           /\ AnonymousWishes # {}
           /\ IntOf(request'.intensity[1]).ok
           /\ ~InvalidWish(request')) =>
              (response'.status = 429 /\ response'.limit_reached)
         ]_vars

\* C27: the returned variance_ratio is trial_variance / baseline_variance
\* when baseline_variance > 0 and 1.0 when baseline_variance is 0; the
\* divisor is never 0.
C27_VarianceRatioGuarded ==
    Returned =>
        LET tv == Result.trial_variance
            bv == Result.baseline_variance
            ratio == Result.variance_ratio
        IN  /\ bv >= 0
            /\ ratio.den # 0
            /\ bv > 0 => (ratio.num = tv /\ ratio.den = bv)
            /\ bv = 0 => ratio.num = ratio.den
C27_Witness ==
    /\ Returned
    /\ variance.baseline_variance = 0
    /\ variance.variance_ratio = [num |-> 1, den |-> 1]

\* The wishes stored for user e with a creation date in month m.
WishesOf(e, m) ==
    {k \in 1..Len(wishes) :
        wishes[k].user_id = Some(e) /\ wishes[k].created_at = m}

\* C21: a logged-in user with no bonus wishes makes no more successful
\* wishes in one calendar month than get_wish_limit() of the tier: the
\* stored wishes of a month never outnumber the limit, and once the limit
\* is reached every further make_wish of that month is answered 429.
C21_MonthlyLimitEnforced ==
    /\ [](\A e \in Emails :
            (users[e].registered /\ users[e].bonus_wishes = 0) =>
                \A m \in 0..MaxMonth :
                    Cardinality(WishesOf(e, m)) <= get_wish_limit(users[e]))
    /\ [][(/\ requests' = requests + 1
           /\ request'.route = "make_wish"
           /\ session.user_id # None
           /\ users[session.user_id[1]].bonus_wishes = 0
           /\ Cardinality(WishesOf(session.user_id[1], month))
                  >= get_wish_limit(users[session.user_id[1]])) =>
              response'.status = 429
         ]_vars

\* C24: after a successful make_wish of a logged-in user the stored user
\* record shows total_wishes increased by one and either wishes_this_month
\* (counted from the monthly reset) increased by one or bonus_wishes
\* decreased by one, and the stored wishes_this_month is the wishes_used
\* value of the response.
C24_UsageChangeDurable ==
    [][(/\ requests' = requests + 1
        /\ request'.route = "make_wish"
        /\ session.user_id # None
        /\ response'.status = 200) =>
           LET e == session.user_id[1]
               before == can_make_wish(users[e], month).row
               after == users'[e]
           IN  /\ after.total_wishes = before.total_wishes + 1
               /\ \/ /\ after.wishes_this_month
                            = before.wishes_this_month + 1
                     /\ after.bonus_wishes = before.bonus_wishes
                  \/ /\ after.wishes_this_month = before.wishes_this_month
                     /\ after.bonus_wishes = before.bonus_wishes - 1
               /\ response'.wishes_used = Some(after.wishes_this_month)
      ]_vars

\* C25: increment_wish_count uses bonus wishes first: with bonus_wishes > 0
\* it takes one bonus wish and leaves wishes_this_month alone, otherwise it
\* adds one to wishes_this_month and leaves bonus_wishes alone; in both
\* cases total_wishes grows by exactly one, and bonus_wishes is never
\* negative.
C25_BonusWishesFirst ==
    /\ [](current_user # None => current_user[1].bonus_wishes >= 0)
    /\ [][IncrementWishCount =>
            LET u == current_user[1]
                v == current_user'[1]
            IN  /\ u.bonus_wishes > 0 =>
                       /\ v.bonus_wishes = u.bonus_wishes - 1
                       /\ v.wishes_this_month = u.wishes_this_month
                /\ u.bonus_wishes <= 0 =>
                       /\ v.wishes_this_month = u.wishes_this_month + 1
                       /\ v.bonus_wishes = u.bonus_wishes
                /\ v.total_wishes = u.total_wishes + 1
         ]_vars
C25_Witness ==
    /\ request.route = "increment_wish_count"
    /\ current_user # None
    /\ users[Member].bonus_wishes = MaxBonus
    /\ current_user[1].bonus_wishes = 0
    /\ current_user[1].wishes_this_month = 1
    /\ current_user[1].total_wishes = MaxBonus + 1

\* C26: can_make_wish for a user with no bonus wishes whose
\* last_wish_reset lies in another month than now sets wishes_this_month
\* to 0 and last_wish_reset to now before it compares with the limit; in
\* the same month it changes neither field.
C26_MonthlyReset ==
    [][CanMakeWish =>
          LET u == current_user[1]
              v == current_user'[1]
              allowed == ~response'.limit_reached
          IN  /\ (u.bonus_wishes = 0 /\ u.last_wish_reset # month) =>
                     /\ v.wishes_this_month = 0
                     /\ v.last_wish_reset = month
                     /\ allowed
                     /\ users'[Member] = v
              /\ (u.bonus_wishes = 0 /\ u.last_wish_reset = month) =>
                     /\ v.wishes_this_month = u.wishes_this_month
                     /\ v.last_wish_reset = u.last_wish_reset
                     /\ allowed <=> u.wishes_this_month < get_wish_limit(u)
      ]_vars
C26_Witness ==
    /\ request.route = "can_make_wish"
    /\ current_user # None
    /\ current_user[1].subscription_tier = "free"
    /\ current_user[1].total_wishes > 3
    /\ current_user[1].wishes_this_month = 0
    /\ current_user[1].last_wish_reset = month
    /\ month > 0
    /\ ~response.limit_reached

C23_CanceledOrPastDueDowngrades ==
    [][\A status \in {"canceled", "past_due"} :
          (/\ SubscriptionUpdated(Member, status, TRUE)
           /\ users[Member].stripe_subscription_id # None) =>
              /\ users'[Member].subscription_tier = "free"
              /\ users'[Member].wishes_this_month = 0
      ]_vars

\* C29: a paid single-wish checkout grants exactly one bonus wish: a
\* delivery of its checkout.session.completed event after one that the
\* handler has committed leaves the user's bonus_wishes as they were.
C29_OneBonusWishPerCheckout ==
    [][(/\ StripeWebhook(TRUE)
        /\ checkout[1].kind \in {"single_wish", "guest"}
        /\ checkout[1].handled >= 1) =>
           users'[checkout[1].email].bonus_wishes
               = users[checkout[1].email].bonus_wishes
      ]_vars

C28_OneRecordPerEmail ==
    /\ [](\A j, k \in 1..Len(subscribers) :
            subscribers[j].email = subscribers[k].email => j = k)
    /\ [](\A k \in 1..Len(subscribers) :
            subscribers[k].email = Normalise(subscribers[k].email))
    /\ [][\A f \in SubscriberEmails :
            (/\ SubscribeEmail(f)
             /\ f.kind = "str"
             /\ ValidEmail(Normalise(f.chars))) =>
                LET email == Normalise(f.chars)
                    k == Existing(email)
                IN  IF k = 0
                    THEN /\ response'.status = 201
                         /\ subscribers' =
                                Append(subscribers, NewSubscriber(email))
                    ELSE /\ response'.status = 200
                         /\ Len(subscribers') = Len(subscribers)
                         /\ subscribers[k].status = "active" =>
                                /\ response'.already_subscribed
                                /\ subscribers' = subscribers
                         /\ subscribers[k].status = "unsubscribed" =>
                                /\ subscribers'[k].status = "active"
                                /\ subscribers'[k].unsubscribed_at = None
         ]_vars

==========================================================================
